---------------------------- MODULE Spec2Model ----------------------------
(***************************************************************************)
(* Model of the webhook action (the Orchestrator) of byom-demo:            *)
(* actions/webhook/index.js.  One invocation of main(params) is a state    *)
(* machine whose steps are the synchronous runs of the JavaScript code     *)
(* between two awaited remote calls:                                       *)
(*                                                                         *)
(*   Invoke          main from its entry to the first awaited fetch        *)
(*                   (body parsing, configuration, validation, path)       *)
(*   PreviewSettles  the awaited preview fetch settles; processEvent       *)
(*                   classifies it, main records the attempt and goes on   *)
(*                   to the next attempt, to the publish call or returns   *)
(*   PublishSettles  the awaited publish fetch settles; main returns       *)
(*   Tick            the wall clock (Date.now) advances                    *)
(***************************************************************************)
EXTENDS Integers, Sequences, FiniteSets, TLC

VARIABLES
    params,             \* the action parameters of the invocation
    env,                \* process.env
    now,                \* Date.now()
    pc,                 \* "start"; "preview", "publish": the fetch awaited; "done"
    projectCoords,      \* main's local projectCoords
    token,              \* main's local token
    nationality,        \* main's local nationality
    pagePath,           \* main's local pagePath
    pathGenerations,    \* number of calls of generatePagePath
    attempt,            \* the loop counter of the preview loop
    previewSuccessful,  \* main's local previewSuccessful
    publishSuccessful,  \* main's local publishSuccessful
    previewAttempts,    \* main's local previewAttempts
    fetchCalls,         \* the calls of fetch made so far, in call order
    previewRes,         \* <<r>>: r is how the last settled preview fetch ended
    publishRes,         \* <<r>>: r is how the publish fetch ended
    response,           \* <<v>>: v is the value main returned
    otherPaths          \* the paths other invocations of the action generated

\* the data-provider action (the Renderer), actions/data-provider/index.js
VARIABLES
    dpPc,               \* "idle", "start"; "fetching": the fetch awaited; "done"
    dpParams,           \* the action parameters of the invocation
    dpPath,             \* main's local path
    dpNationality,      \* main's local nationality
    dpFetchCalls,       \* the urls fetch was called with, in call order
    dpLog,              \* the calls of the logger, in call order
    dpRes,              \* <<r>>: r is how the awaited fetch ended
    dpResponse          \* <<v>>: v is the value main returned

webhookVars == <<params, env, now, pc, projectCoords, token, nationality, pagePath,
                 pathGenerations, attempt, previewSuccessful, publishSuccessful,
                 previewAttempts, fetchCalls, previewRes, publishRes, response>>

dpVars == <<dpPc, dpParams, dpPath, dpNationality, dpFetchCalls, dpLog, dpRes,
            dpResponse>>

vars == <<webhookVars, otherPaths, dpVars>>

---------------------------------------------------------------------------
(* Bounds of the model *)

\* the clock runs from 1 to MaxClock
MaxClock == 2

(* Program constants *)

MAX_PREVIEW_ATTEMPTS == 3

\* JavaScript's undefined, for values that are strings otherwise
Undefined == "<undefined>"

\* JavaScript's undefined, for the status of a result that has none
UndefinedStatus == 0 - 1

\* a value is truthy unless it is undefined or the empty string
Truthy(v) == v # Undefined /\ v # ""

\* a || b
Or(a, b) == IF Truthy(a) THEN a ELSE b

---------------------------------------------------------------------------
(* The inputs of an invocation *)

\* the JSON documents a request body can decode to: nothing (no body),
\* text that is no JSON, the literal null, a number, an object
EmptyObject ==
    [type |-> "object", PROJECT_COORDS |-> Undefined, TOKEN |-> Undefined,
     NATIONALITY |-> Undefined, nationality |-> Undefined]

BodyObjects ==
    { [type |-> "object", PROJECT_COORDS |-> c[1], TOKEN |-> c[2],
       NATIONALITY |-> n, nationality |-> m] :
         c \in {<<Undefined, Undefined>>, <<"body/repo/main", "body-token">>},
         n \in {Undefined, "ES"}, m \in {Undefined, "de"} }

Bodies ==
    { [EmptyObject EXCEPT !.type = t] : t \in {"absent", "garbage", "null", "number"} }
       \cup BodyObjects

ParamsSet ==
    [ PROJECT_COORDS : {Undefined, "owner/repo/main"},
      TOKEN          : {Undefined, "", "aem-token"},
      NATIONALITY    : {Undefined, "GB,FR,DE"},
      nationality    : {Undefined, "us"},
      ow_body        : Bodies ]

EnvSet ==
    [ PROJECT_COORDS : {Undefined, "env/repo/main"},
      TOKEN          : {Undefined, "env-token"} ]

---------------------------------------------------------------------------
(* The ways a fetch can end *)

NoPayloadStatus == [type |-> "undefined", val |-> 0]

PayloadStatuses ==
    { NoPayloadStatus,
      [type |-> "number", val |-> 200],
      [type |-> "number", val |-> 500],
      [type |-> "string", val |-> 200] }

\* rejects: fetch throws (connection failure); ok, status: the response's;
\* textRejects: res.text() throws; jsonRejects: res.json() throws;
\* previewStatus: the payload's preview.status
FetchErrorMessage == "connect ECONNREFUSED"

Rejected ==
    [rejects |-> TRUE, ok |-> FALSE, status |-> 0, textRejects |-> FALSE,
     jsonRejects |-> FALSE, previewStatus |-> NoPayloadStatus]

FetchOutcomes ==
    { Rejected }
    \cup { [Rejected EXCEPT !.rejects = FALSE, !.status = 500, !.textRejects = b] :
             b \in BOOLEAN }
    \cup { [Rejected EXCEPT !.rejects = FALSE, !.ok = TRUE, !.status = 200,
                            !.jsonRejects = TRUE] }
    \cup { [Rejected EXCEPT !.rejects = FALSE, !.ok = TRUE, !.status = 200,
                            !.previewStatus = s] : s \in PayloadStatuses }

---------------------------------------------------------------------------
(* The pure functions of the action *)

\* utils.errorResponse(statusCode, message, logger)
errorResponse(statusCode, message) ==
    [error |-> [statusCode |-> statusCode, body |-> [error |-> message]]]

\* Array.prototype.join
RECURSIVE join(_, _)
join(list, sep) ==
    IF Len(list) = 0 THEN ""
    ELSE IF Len(list) = 1 THEN list[1]
    ELSE list[1] \o sep \o join(Tail(list), sep)

\* JSON.parse(Buffer.from(params.__ow_body, 'base64').toString('utf-8')), with
\* the catch around it: bodyParams stays {} without a body or when it is no JSON
parseBody(body) ==
    IF body.type \in {"absent", "garbage"} THEN EmptyObject ELSE body

\* resolveNationality reading the direct parameters before the body
resolveNationalityParamsFirst(bodyParams, p) ==
    Or(Or(Or(p.NATIONALITY, p.nationality), bodyParams.NATIONALITY),
       bodyParams.nationality)

\* bodyParams.NATIONALITY || bodyParams.nationality || params.NATIONALITY
\*   || params.nationality
resolveNationality(bodyParams, p) ==
    Or(Or(Or(bodyParams.NATIONALITY, bodyParams.nationality), p.NATIONALITY),
       p.nationality)

\* reading a property of null throws a TypeError
nationalityThrows(bodyParams) == bodyParams.type = "null"

NullTypeError == "Cannot read properties of null (reading 'NATIONALITY')"

resolveProjectCoords(p, e) == Or(p.PROJECT_COORDS, e.PROJECT_COORDS)

resolveToken(p, e) == Or(p.TOKEN, e.TOKEN)

missingFields(coords, tok) ==
    (IF ~Truthy(coords) THEN <<"PROJECT_COORDS">> ELSE <<>>)
       \o (IF ~Truthy(tok) THEN <<"TOKEN">> ELSE <<>>)

missingMessage(fields) == "missing parameter(s) '" \o join(fields, ", ") \o "'"

\* generatePagePath with a namespace of its own
generatePagePathOtherNamespace(t) == "/byom/" \o ToString(t)

generatePagePath(t) == "/byom-page/" \o ToString(t)

\* requestHeaders writing the filter under the header name x-user-location
requestHeadersUserLocation(tok, nat) ==
    IF Truthy(nat)
    THEN ("authorization" :> ("token " \o tok)) @@ ("x-user-location" :> nat)
    ELSE ("authorization" :> ("token " \o tok))

\* the url, method and headers processEvent hands to fetch
requestHeaders(tok, nat) ==
    IF Truthy(nat)
    THEN ("authorization" :> ("token " \o tok))
            @@ ("x-content-source-location" :> nat)
    ELSE ("authorization" :> ("token " \o tok))

\* request with the path generated anew for every call
requestFreshPath(tok, uriEnv, coords, path, action, nat) ==
    [ url     |-> "https://admin.hlx.page/" \o uriEnv \o "/" \o coords
                     \o generatePagePath(now),
      uriEnv  |-> uriEnv,
      path    |-> generatePagePath(now),
      method  |-> IF action = "publish" THEN "POST" ELSE "DELETE",
      headers |-> requestHeaders(tok, nat) ]

\* request with the verb chosen by the environment: only the call to live posts
requestPostsToLiveOnly(tok, uriEnv, coords, path, action, nat) ==
    [ url     |-> "https://admin.hlx.page/" \o uriEnv \o "/" \o coords \o path,
      uriEnv  |-> uriEnv,
      path    |-> path,
      method  |-> IF uriEnv = "live" THEN "POST" ELSE "DELETE",
      headers |-> requestHeaders(tok, nat) ]

request(tok, uriEnv, coords, path, action, nat) ==
    [ url     |-> "https://admin.hlx.page/" \o uriEnv \o "/" \o coords \o path,
      uriEnv  |-> uriEnv,
      path    |-> path,
      method  |-> IF action = "publish" THEN "POST" ELSE "DELETE",
      headers |-> requestHeaders(tok, nat) ]

\* safeRead(res): the body text, or "" when reading it throws; threw says
\* whether safeRead itself throws
safeRead(res) ==
    [threw |-> FALSE, text |-> IF res.textRejects THEN "" ELSE "failure"]

\* payload = await res.json() with the catch around it: the payload's
\* preview?.status, which is undefined when the body is no JSON
payloadPreviewStatus(res) ==
    IF res.jsonRejects THEN NoPayloadStatus ELSE res.previewStatus

\* processEvent deciding by the transport response alone
processEventTransportOnly(uriEnv, res) ==
    IF res.rejects
    THEN [threw |-> FALSE, success |-> FALSE, status |-> UndefinedStatus]
    ELSE [threw |-> FALSE, success |-> res.ok, status |-> res.status]

\* processEvent without the try/catch around its fetch
processEventNoCatch(uriEnv, res) ==
    IF res.rejects
    THEN [threw |-> TRUE, message |-> FetchErrorMessage]
    ELSE [threw |-> FALSE,
          success |-> res.ok /\ (uriEnv = "preview"
                                    /\ payloadPreviewStatus(res).type = "number"
                                   => payloadPreviewStatus(res).val = 200),
          status |-> res.status]

\* processEvent applying the payload rule to the calls of every environment
processEventPayloadEverywhere(uriEnv, res) ==
    IF res.rejects
    THEN [threw |-> FALSE, success |-> FALSE, status |-> UndefinedStatus]
    ELSE IF ~res.ok
    THEN [threw |-> FALSE, success |-> FALSE, status |-> res.status]
    ELSE LET previewStatus == payloadPreviewStatus(res)
         IN IF previewStatus.type = "number"
            THEN [threw |-> FALSE, success |-> previewStatus.val = 200,
                  status |-> res.status]
            ELSE [threw |-> FALSE, success |-> TRUE, status |-> res.status]

\* processEvent reporting the payload's status where the payload decides
processEventPayloadStatus(uriEnv, res) ==
    IF res.rejects
    THEN [threw |-> FALSE, success |-> FALSE, status |-> UndefinedStatus]
    ELSE IF ~res.ok
    THEN [threw |-> FALSE, success |-> FALSE, status |-> res.status]
    ELSE LET previewStatus == payloadPreviewStatus(res)
         IN IF uriEnv = "preview" /\ previewStatus.type = "number"
            THEN [threw |-> FALSE, success |-> previewStatus.val = 200,
                  status |-> previewStatus.val]
            ELSE [threw |-> FALSE, success |-> TRUE, status |-> res.status]

\* what processEvent returns when its fetch ended as res; threw says whether
\* processEvent itself throws, message is the message of the error thrown
processEvent(uriEnv, res) ==
    IF res.rejects
    THEN [threw |-> FALSE, success |-> FALSE, status |-> UndefinedStatus]
    ELSE IF ~res.ok
    THEN IF safeRead(res).threw
         THEN [threw |-> FALSE, success |-> FALSE, status |-> UndefinedStatus]
         ELSE [threw |-> FALSE, success |-> FALSE, status |-> res.status]
    ELSE LET previewStatus == payloadPreviewStatus(res)
         IN IF uriEnv = "preview" /\ previewStatus.type = "number"
            THEN [threw |-> FALSE, success |-> previewStatus.val = 200,
                  status |-> res.status]
            ELSE [threw |-> FALSE, success |-> TRUE, status |-> res.status]

\* loopContinues without the bound
loopContinuesUnbounded(att, success) == ~success

\* loopContinues with the bound off by one
loopContinuesOffByOne(att, success) == ~success /\ att + 1 <= MAX_PREVIEW_ATTEMPTS

\* loopContinues without the break
loopContinuesNoBreak(att, success) == att + 1 < MAX_PREVIEW_ATTEMPTS

\* the preview loop goes on to another attempt: the attempt just made, the
\* att-th counting from 0, did not succeed (break) and att + 1 is below the
\* maximum (the for condition)
loopContinues(att, success) == ~success /\ att + 1 < MAX_PREVIEW_ATTEMPTS

\* publishGuard without the test
publishGuardAlways(pv) == TRUE

\* if (previewSuccessful): the publish call is made
publishGuard(pv) == pv

\* result with the status decided by the preview phase alone
resultPreviewOnly(pv, pb, attempts, path) ==
    [ statusCode |-> IF pv THEN 200 ELSE 500,
      body |-> [ previewSuccessful |-> pv, publishSuccessful |-> pb,
                 previewAttempts |-> attempts, pagePath |-> path ] ]

\* result returning the last attempt alone
resultLastAttemptOnly(pv, pb, attempts, path) ==
    [ statusCode |-> IF pv /\ pb THEN 200 ELSE 500,
      body |-> [ previewSuccessful |-> pv, publishSuccessful |-> pb,
                 previewAttempts |-> <<attempts[Len(attempts)]>>,
                 pagePath |-> path ] ]

\* the value main returns at its end
result(pv, pb, attempts, path) ==
    [ statusCode |-> IF pv /\ pb THEN 200 ELSE 500,
      body |-> [ previewSuccessful |-> pv, publishSuccessful |-> pb,
                 previewAttempts |-> attempts, pagePath |-> path ] ]

---------------------------------------------------------------------------
(* The data-provider action: its inputs, the ways its fetch can end, and   *)
(* its pure functions.  A path is the sequence of its characters.          *)

\* String.prototype.startsWith
startsWith(str, prefix) ==
    Len(str) >= Len(prefix) /\ SubSeq(str, 1, Len(prefix)) = prefix

\* the string whose characters are chars
text(chars) == join(chars, "")

OverlayPrefix == <<"/", "b", "y", "o", "m", "-", "p", "a", "g", "e">>

\* params.__ow_path is not set
NoPath == <<Undefined>>

DpPaths ==
    { NoPath,
      <<>>,
      <<"/">>,
      <<"/", "i", "n", "v">>,
      <<"i", "n", "v">>,
      SubSeq(OverlayPrefix, 1, 9),
      <<"/", "x">> \o OverlayPrefix,
      OverlayPrefix,
      OverlayPrefix \o <<"s">>,
      OverlayPrefix \o <<"/", "1">>,
      Tail(OverlayPrefix) \o <<"/", "1">> }

\* params.__ow_headers: the headers of the request, by name
DpHeaders ==
    { "host" :> "runtime" }
    \cup { ("host" :> "runtime") @@ (n :> v) :
             n \in {"x-content-source-location", "x-user-location"},
             v \in {"", "GB", "US,GB,FR", "INVALID-FORMAT!"} }

DpParamsSet == [ ow_path : DpPaths, ow_headers : DpHeaders ]

IdleDpParams == [ ow_path |-> NoPath, ow_headers |-> "host" :> "runtime" ]

\* header reading the name the tests use, whatever name is asked for
headerUserLocation(headers, name) ==
    IF "x-user-location" \in DOMAIN headers THEN headers["x-user-location"]
    ELSE Undefined

\* params.__ow_headers?.[name]
header(headers, name) == IF name \in DOMAIN headers THEN headers[name] ELSE Undefined

RANDOM_API_ENDPOINT == "https://randomuser.me/api/"

\* the ways the fetch of the Random User API can end.  rejects: fetch throws
\* (the upstream is unreachable); ok, status, statusText: the response's;
\* jsonRejects: apiRes.json() throws; data: the JSON document of the body:
\* "null", "noResults" ({}), "emptyResults" ({results: []}), "user" (a
\* result with all its fields), "badUser" (a result without its name)
DpRejected ==
    [rejects |-> TRUE, ok |-> FALSE, status |-> 0, statusText |-> "",
     jsonRejects |-> FALSE, data |-> "null"]

DpFetchOutcomes ==
    { DpRejected,
      [DpRejected EXCEPT !.rejects = FALSE, !.status = 500,
                         !.statusText = "Internal Server Error"],
      [DpRejected EXCEPT !.rejects = FALSE, !.ok = TRUE, !.status = 200,
                         !.jsonRejects = TRUE] }
    \cup { [DpRejected EXCEPT !.rejects = FALSE, !.ok = TRUE, !.status = 200,
                              !.data = d] :
             d \in {"null", "noResults", "emptyResults", "user", "badUser"} }

\* the first result of the Random User API, as far as the page shows it
ApiUser == [title |-> "Mr", first |-> "John", last |-> "Doe", username |-> "johndoe123"]

\* the record built from the first result
mappedUserData(user, path, nat) ==
    [ fullName |-> user.title \o " " \o user.first \o " " \o user.last,
      username |-> user.username,
      path |-> path,
      nationality_header |-> nat ]

\* the fixed record used when the API gave no user
fallbackUserData(path, nat) ==
    [ fullName |-> "John Doe",
      username |-> "johndoe",
      path |-> path,
      nationality_header |-> nat ]

\* apiUrlFor leaving the filter out
apiUrlForUnfiltered(nat) == RANDOM_API_ENDPOINT

\* the api url for a filter value
apiUrlFor(nat) ==
    IF Truthy(nat) THEN RANDOM_API_ENDPOINT \o "?nat=" \o nat ELSE RANDOM_API_ENDPOINT

\* `${nationality}` in a template literal
interpolate(v) == IF v = Undefined THEN "undefined" ELSE v

\* the log call made when the api url is built
apiUrlLog(nat) ==
    IF Truthy(nat)
    THEN [level |-> "info", message |-> "Fetching user with nationality filter: " \o nat]
    ELSE [level |-> "warn", message |->
             "Invalid nationality format: " \o interpolate(nat) \o ". Using default."]

\* template(pageData): the document, as far as it depends on the user
renderTemplate(pageData) ==
    [ template |-> "user-profile.html",
      fullName |-> pageData.user.fullName,
      username |-> pageData.user.username ]

\* dpCatch answering with the message of the error, as the webhook's catch does
dpCatchErrorMessage(error) ==
    [ log      |-> <<[level |-> "error", message |-> error],
                     [level |-> "info", message |-> "500: " \o Or(error, "server error")]>>,
      response |-> errorResponse(500, Or(error, "server error")) ]

\* the catch of the data-provider's main: its log call and its return value
dpCatch(error) ==
    [ log      |-> <<[level |-> "error", message |-> error],
                     [level |-> "info", message |-> "500: server error"]>>,
      response |-> errorResponse(500, "server error") ]

\* main after its fetch ended as res, with the template readable or not: the
\* log calls it makes and the value it returns
dpAfterFetch(res, templateReadable, path, nat) ==
    IF res.rejects
    THEN dpCatch("FetchError: connect ECONNREFUSED")
    ELSE IF res.ok /\ res.jsonRejects
    THEN dpCatch("SyntaxError: Unexpected token")
    ELSE IF res.ok /\ res.data = "null"
    THEN dpCatch("TypeError: Cannot read properties of null (reading 'results')")
    ELSE IF res.ok /\ res.data = "badUser"
    THEN dpCatch("TypeError: Cannot read properties of undefined (reading 'title')")
    ELSE LET warned ==
                 IF res.ok THEN <<>>
                 ELSE <<[level |-> "warn", message |->
                           "Failed to fetch from Random User API: "
                              \o ToString(res.status) \o " " \o res.statusText]>>
             userData ==
                 IF res.ok /\ res.data = "user"
                 THEN mappedUserData(ApiUser, path, nat)
                 ELSE fallbackUserData(path, nat)
         IN IF ~templateReadable
            THEN LET c == dpCatch("Error: ENOENT: no such file or directory")
                 IN [c EXCEPT !.log = warned \o @]
            ELSE [ log |-> warned
                      \o <<[level |-> "info", message |->
                              "Rendering HTML template with sample data"],
                           [level |-> "info", message |->
                              "200: HTML rendered successfully"]>>,
                   response |->
                      [ statusCode |-> 200,
                        body |-> renderTemplate([user |-> userData]),
                        headers |-> ("Content-Type" :> "text/html") ] ]

\* the path with a leading "/" ensured
normalizePath(p) == IF startsWith(p, <<"/">>) THEN p ELSE <<"/">> \o p

\* isOverlayPath looking for the namespace anywhere in the path
isOverlayPathAnywhere(path) ==
    \E i \in 1..Len(path) :
       i + Len(OverlayPrefix) - 1 <= Len(path)
          /\ SubSeq(path, i, i + Len(OverlayPrefix) - 1) = OverlayPrefix

\* path.startsWith("/byom-page")
isOverlayPath(path) == startsWith(path, OverlayPrefix)

DpIdle ==
    /\ dpPc = "idle"
    /\ dpParams = IdleDpParams
    /\ dpPath = NoPath
    /\ dpNationality = Undefined
    /\ dpFetchCalls = <<>>
    /\ dpLog = <<>>
    /\ dpRes = <<>>
    /\ dpResponse = <<>>

---------------------------------------------------------------------------
TypeOK ==
    /\ params \in ParamsSet
    /\ env \in EnvSet
    /\ now \in 1..MaxClock
    /\ pc \in {"idle", "start", "preview", "publish", "done"}
    /\ attempt \in 0..MAX_PREVIEW_ATTEMPTS
    /\ previewSuccessful \in BOOLEAN
    /\ publishSuccessful \in BOOLEAN
    /\ Len(response) <= 1

Init ==
    /\ params \in ParamsSet
    /\ env \in EnvSet
    /\ now = 1
    /\ pc = "start"
    /\ projectCoords = Undefined
    /\ token = Undefined
    /\ nationality = Undefined
    /\ pagePath = Undefined
    /\ pathGenerations = 0
    /\ attempt = 0
    /\ previewSuccessful = FALSE
    /\ publishSuccessful = FALSE
    /\ previewAttempts = <<>>
    /\ fetchCalls = <<>>
    /\ previewRes = <<>>
    /\ publishRes = <<>>
    /\ response = <<>>
    /\ otherPaths = {}
    /\ DpIdle

\* Date.now() advances
Tick ==
    /\ pc # "done"
    /\ now < MaxClock
    /\ now' = now + 1
    /\ UNCHANGED <<params, env, pc, projectCoords, token, nationality, pagePath,
                   pathGenerations, attempt, previewSuccessful, publishSuccessful,
                   previewAttempts, fetchCalls, previewRes, publishRes, response,
                   otherPaths, dpVars>>

\* Invoke issuing the publish call together with the first preview call
InvokeFanOut ==
    /\ pc = "start"
    /\ LET bodyParams == parseBody(params.ow_body)
           coords     == resolveProjectCoords(params, env)
           tok        == resolveToken(params, env)
           nat        == resolveNationality(bodyParams, params)
           missing    == missingFields(coords, tok)
           path       == generatePagePath(now)
       IN /\ projectCoords' = coords
          /\ token' = tok
          /\ IF nationalityThrows(bodyParams)
             THEN \* caught by main's catch
                  /\ pc' = "done"
                  /\ response' = <<errorResponse(500, Or(NullTypeError, "server error"))>>
                  /\ UNCHANGED <<nationality, pagePath, pathGenerations, fetchCalls>>
             ELSE IF Len(missing) > 0
             THEN /\ pc' = "done"
                  /\ nationality' = nat
                  /\ response' = <<errorResponse(400, missingMessage(missing))>>
                  /\ UNCHANGED <<pagePath, pathGenerations, fetchCalls>>
             ELSE /\ pc' = "preview"
                  /\ nationality' = nat
                  /\ pagePath' = path
                  /\ pathGenerations' = pathGenerations + 1
                  /\ fetchCalls' = fetchCalls
                         \o <<request(tok, "preview", coords, path, "publish", nat),
                              request(tok, "live", coords, path, "publish", nat)>>
                  /\ UNCHANGED response
    /\ UNCHANGED <<params, env, now, attempt, previewSuccessful, publishSuccessful,
                   previewAttempts, previewRes, publishRes, otherPaths, dpVars>>

\* main, from its entry to its first await
Invoke ==
    /\ pc = "start"
    /\ LET bodyParams == parseBody(params.ow_body)
           coords     == resolveProjectCoords(params, env)
           tok        == resolveToken(params, env)
           nat        == resolveNationality(bodyParams, params)
           missing    == missingFields(coords, tok)
           path       == generatePagePath(now)
       IN /\ projectCoords' = coords
          /\ token' = tok
          /\ IF nationalityThrows(bodyParams)
             THEN \* caught by main's catch
                  /\ pc' = "done"
                  /\ response' = <<errorResponse(500, Or(NullTypeError, "server error"))>>
                  /\ UNCHANGED <<nationality, pagePath, pathGenerations, fetchCalls>>
             ELSE IF Len(missing) > 0
             THEN /\ pc' = "done"
                  /\ nationality' = nat
                  /\ response' = <<errorResponse(400, missingMessage(missing))>>
                  /\ UNCHANGED <<pagePath, pathGenerations, fetchCalls>>
             ELSE /\ pc' = "preview"
                  /\ nationality' = nat
                  /\ pagePath' = path
                  /\ pathGenerations' = pathGenerations + 1
                  /\ fetchCalls' = Append(fetchCalls,
                         request(tok, "preview", coords, path, "publish", nat))
                  /\ UNCHANGED response
    /\ UNCHANGED <<params, env, now, attempt, previewSuccessful, publishSuccessful,
                   previewAttempts, previewRes, publishRes, otherPaths, dpVars>>

\* the awaited preview fetch settles as res
PreviewSettles(res) ==
    /\ pc = "preview"
    /\ LET r        == processEvent("preview", res)
           attempts == Append(previewAttempts,
                          [attempt |-> attempt + 1, success |-> r.success,
                           status |-> r.status])
           pv       == previewSuccessful \/ r.success
       IN /\ previewRes' = <<res>>
          /\ IF r.threw
             THEN \* caught by main's catch
                  /\ pc' = "done"
                  /\ response' = <<errorResponse(500, Or(r.message, "server error"))>>
                  /\ UNCHANGED <<attempt, previewSuccessful, previewAttempts,
                                 fetchCalls>>
             ELSE /\ previewAttempts' = attempts
                  /\ previewSuccessful' = pv
                  /\ IF loopContinues(attempt, r.success)
                     THEN \* the next attempt
                          /\ attempt' = attempt + 1
                          /\ pc' = "preview"
                          /\ fetchCalls' = Append(fetchCalls,
                                 request(token, "preview", projectCoords, pagePath,
                                         "publish", nationality))
                          /\ UNCHANGED response
                     ELSE IF publishGuard(pv)
                     THEN \* the loop is left, then the publish call
                          /\ attempt' = IF r.success THEN attempt ELSE attempt + 1
                          /\ pc' = "publish"
                          /\ fetchCalls' = Append(fetchCalls,
                                 request(token, "live", projectCoords, pagePath,
                                         "publish", nationality))
                          /\ UNCHANGED response
                     ELSE \* the loop is left, no publish call
                          /\ attempt' = IF r.success THEN attempt ELSE attempt + 1
                          /\ pc' = "done"
                          /\ response' = <<result(pv, publishSuccessful, attempts,
                                                  pagePath)>>
                          /\ UNCHANGED fetchCalls
    /\ UNCHANGED <<params, env, now, projectCoords, token, nationality, pagePath,
                   pathGenerations, publishSuccessful, publishRes, otherPaths,
                   dpVars>>

\* PublishSettles with one retry of a failed publish call
PublishSettlesRetry(res) ==
    /\ pc = "publish"
    /\ LET r == processEvent("live", res)
       IN /\ publishRes' = <<res>>
          /\ IF ~r.success /\ publishRes = <<>>
             THEN /\ pc' = "publish"
                  /\ fetchCalls' = Append(fetchCalls,
                         request(token, "live", projectCoords, pagePath,
                                 "publish", nationality))
                  /\ UNCHANGED <<publishSuccessful, response>>
             ELSE /\ pc' = "done"
                  /\ publishSuccessful' = r.success
                  /\ response' = <<result(previewSuccessful, r.success,
                                          previewAttempts, pagePath)>>
                  /\ UNCHANGED fetchCalls
    /\ UNCHANGED <<params, env, now, projectCoords, token, nationality, pagePath,
                   pathGenerations, attempt, previewSuccessful, previewAttempts,
                   previewRes, otherPaths, dpVars>>

\* the awaited publish fetch settles as res
PublishSettles(res) ==
    /\ pc = "publish"
    /\ LET r == processEvent("live", res)
       IN /\ publishRes' = <<res>>
          /\ pc' = "done"
          /\ IF r.threw
             THEN \* caught by main's catch
                  /\ response' = <<errorResponse(500, Or(r.message, "server error"))>>
                  /\ UNCHANGED publishSuccessful
             ELSE /\ publishSuccessful' = r.success
                  /\ response' = <<result(previewSuccessful, r.success,
                                          previewAttempts, pagePath)>>
    /\ UNCHANGED <<params, env, now, projectCoords, token, nationality, pagePath,
                   pathGenerations, attempt, previewSuccessful, previewAttempts,
                   fetchCalls, previewRes, otherPaths, dpVars>>

Next ==
    \/ Tick
    \/ Invoke
    \/ \E res \in FetchOutcomes : PreviewSettles(res)
    \/ \E res \in FetchOutcomes : PublishSettles(res)

Spec == Init /\ [][Next]_vars

\* main runs when it is invoked, and every awaited fetch settles
FairSpec ==
    /\ Spec
    /\ WF_vars(Invoke)
    /\ WF_vars(\E res \in FetchOutcomes : PreviewSettles(res))
    /\ WF_vars(\E res \in FetchOutcomes : PublishSettles(res))

---------------------------------------------------------------------------
(* Invocations of the webhook action side by side *)

\* another invocation of main reaches line 96 and generates its path
OtherInvocation ==
    /\ otherPaths' = otherPaths \cup {generatePagePath(now)}
    /\ otherPaths' # otherPaths
    /\ UNCHANGED <<webhookVars, dpVars>>

ConcurrentInit ==
    /\ Init
    /\ params.ow_body.type = "absent"
    /\ params.NATIONALITY = Undefined
    /\ params.nationality = Undefined

ConcurrentNext == Next \/ OtherInvocation

ConcurrentSpec == ConcurrentInit /\ [][ConcurrentNext]_vars

---------------------------------------------------------------------------
(* One invocation of the data-provider action *)

DpInit ==
    /\ params = [PROJECT_COORDS |-> Undefined, TOKEN |-> Undefined,
                 NATIONALITY |-> Undefined, nationality |-> Undefined,
                 ow_body |-> [EmptyObject EXCEPT !.type = "absent"]]
    /\ env = [PROJECT_COORDS |-> Undefined, TOKEN |-> Undefined]
    /\ now = 1
    /\ pc = "idle"
    /\ projectCoords = Undefined
    /\ token = Undefined
    /\ nationality = Undefined
    /\ pagePath = Undefined
    /\ pathGenerations = 0
    /\ attempt = 0
    /\ previewSuccessful = FALSE
    /\ publishSuccessful = FALSE
    /\ previewAttempts = <<>>
    /\ fetchCalls = <<>>
    /\ previewRes = <<>>
    /\ publishRes = <<>>
    /\ response = <<>>
    /\ otherPaths = {}
    /\ dpPc = "start"
    /\ dpParams \in DpParamsSet
    /\ dpPath = NoPath
    /\ dpNationality = Undefined
    /\ dpFetchCalls = <<>>
    /\ dpLog = <<>>
    /\ dpRes = <<>>
    /\ dpResponse = <<>>

\* main, from its entry to its await of fetch
DpInvoke ==
    /\ dpPc = "start"
    /\ LET entry == <<[level |-> "info", message |-> "Invoked data-provider action"]>>
           path  == normalizePath(dpParams.ow_path)
           nat   == header(dpParams.ow_headers, "x-content-source-location")
           url   == apiUrlFor(nat)
       IN IF dpParams.ow_path = NoPath
          THEN \* path.startsWith throws a TypeError
               LET c == dpCatch("TypeError: Cannot read properties of undefined (reading 'startsWith')")
               IN /\ dpPc' = "done"
                  /\ dpLog' = dpLog \o entry \o c.log
                  /\ dpResponse' = <<c.response>>
                  /\ UNCHANGED <<dpPath, dpNationality, dpFetchCalls>>
          ELSE IF ~isOverlayPath(path)
          THEN LET message == text(path) \o " is not an overlay path"
               IN /\ dpPc' = "done"
                  /\ dpPath' = path
                  /\ dpLog' = dpLog \o entry
                        \o <<[level |-> "info", message |-> "404: " \o message]>>
                  /\ dpResponse' = <<errorResponse(404, message)>>
                  /\ UNCHANGED <<dpNationality, dpFetchCalls>>
          ELSE /\ dpPc' = "fetching"
               /\ dpPath' = path
               /\ dpNationality' = nat
               /\ dpLog' = dpLog \o entry
                     \o <<apiUrlLog(nat),
                          [level |-> "info", message |->
                              "Fetching user data from Random User API: " \o url]>>
               /\ dpFetchCalls' = Append(dpFetchCalls, url)
               /\ UNCHANGED dpResponse
    /\ UNCHANGED <<webhookVars, otherPaths, dpParams, dpRes>>

\* the awaited fetch settles as res; the template can be read or not
DpFetchSettles(res, templateReadable) ==
    /\ dpPc = "fetching"
    /\ LET r == dpAfterFetch(res, templateReadable, dpPath, dpNationality)
       IN /\ dpPc' = "done"
          /\ dpRes' = <<res>>
          /\ dpLog' = dpLog \o r.log
          /\ dpResponse' = <<r.response>>
    /\ UNCHANGED <<webhookVars, otherPaths, dpParams, dpPath, dpNationality,
                   dpFetchCalls>>

DpNext ==
    \/ DpInvoke
    \/ \E res \in DpFetchOutcomes, templateReadable \in BOOLEAN :
          DpFetchSettles(res, templateReadable)

DpSpec == DpInit /\ [][DpNext]_vars

---------------------------------------------------------------------------
(* The two actions end to end: the admin service resolves the path of a    *)
(* preview call by invoking the data-provider action with the path and the *)
(* headers of that call.                                                    *)

Digit == <<"0", "1", "2", "3", "4", "5", "6", "7", "8", "9">>

\* the decimal digits of n
RECURSIVE digits(_)
digits(n) == IF n < 10 THEN <<Digit[n + 1]>>
             ELSE digits(n \div 10) \o <<Digit[(n % 10) + 1]>>

\* the paths a call can name, as sequences of characters
PathCandidates ==
    { prefix \o <<"/">> \o digits(t) :
        prefix \in {<<>>, SubSeq(OverlayPrefix, 1, 5), OverlayPrefix},
        t \in 0..(MaxClock + 1) }

\* the characters of the path string s
chars(s) ==
    IF \E p \in PathCandidates : text(p) = s
    THEN CHOOSE p \in PathCandidates : text(p) = s
    ELSE NoPath

\* the admin service, while it handles a preview call, invokes the
\* data-provider action with the path and the headers of that call
AdminForwards ==
    /\ pc = "preview"
    /\ dpPc = "idle"
    /\ LET call == fetchCalls[Len(fetchCalls)]
       IN dpParams' = [ ow_path    |-> chars(call.path),
                        ow_headers |-> ("host" :> "runtime") @@ call.headers ]
    /\ dpPc' = "start"
    /\ UNCHANGED <<webhookVars, otherPaths, dpPath, dpNationality, dpFetchCalls,
                   dpLog, dpRes, dpResponse>>

\* a trigger with coordinates and token, with any body and any filter
EndToEndInit ==
    /\ Init
    /\ params.PROJECT_COORDS = "owner/repo/main"
    /\ params.TOKEN = "aem-token"
    /\ env = [PROJECT_COORDS |-> Undefined, TOKEN |-> Undefined]

EndToEndNext ==
    \/ Next
    \/ AdminForwards
    \/ DpInvoke
    \/ \E res \in DpFetchOutcomes, templateReadable \in BOOLEAN :
          DpFetchSettles(res, templateReadable)

EndToEndSpec == EndToEndInit /\ [][EndToEndNext]_vars

---------------------------------------------------------------------------
(* What the properties speak about *)

PreviewCallIndexes == {i \in DOMAIN fetchCalls : fetchCalls[i].uriEnv = "preview"}

LiveCallIndexes == {i \in DOMAIN fetchCalls : fetchCalls[i].uriEnv = "live"}

PreviewCallsMade == Cardinality(PreviewCallIndexes)

SuccessfulAttempts == {i \in DOMAIN previewAttempts : previewAttempts[i].success}

\* main has returned the value it builds at its end
Completed == pc = "done" /\ "body" \in DOMAIN response[1]

\* the inputs: a required field is missing after the merge with process.env
CoordsMissing == ~Truthy(params.PROJECT_COORDS) /\ ~Truthy(env.PROJECT_COORDS)

TokenMissing == ~Truthy(params.TOKEN) /\ ~Truthy(env.TOKEN)

\* the inputs: the filter values the trigger supplies
SuppliedFilters ==
    { v \in { params.NATIONALITY, params.nationality }
              \cup (IF params.ow_body.type = "object"
                    THEN { params.ow_body.NATIONALITY, params.ow_body.nationality }
                    ELSE {}) : Truthy(v) }

FilterHeader == "x-content-source-location"

---------------------------------------------------------------------------
\* C1: a call to the live environment has been made if and only if a preview
\* attempt of the invocation was classified successful, whatever the outcomes
\* of the preview calls were.
PublishIffPreviewSucceeded ==
    (LiveCallIndexes # {}) <=> (SuccessfulAttempts # {})

\* two failed preview attempts, a successful third one, and the publish call
PublishAfterThirdAttempt ==
    /\ pc = "done"
    /\ Len(previewAttempts) = 3
    /\ previewAttempts[3].success
    /\ LiveCallIndexes # {}

\* C2: at most 3 preview calls are made; previewAttempts has one entry for
\* every preview call that has settled, so as many entries as calls once no
\* preview call is awaited; an attempt that succeeds before the third leaves
\* the list with fewer than 3 entries.
AttemptsBounded ==
    /\ PreviewCallsMade <= 3
    /\ Len(previewAttempts) = PreviewCallsMade - (IF pc = "preview" THEN 1 ELSE 0)
    /\ pc = "done" => Len(previewAttempts) = PreviewCallsMade
    /\ \A i \in SuccessfulAttempts : i < 3 => Len(previewAttempts) < 3

\* the second attempt succeeded: the returned list has two entries
EarlySuccess ==
    /\ Completed
    /\ Len(response[1].body.previewAttempts) = 2
    /\ response[1].body.previewAttempts[2].success
    /\ PreviewCallsMade = 2

\* C3: a successful entry of previewAttempts is the last entry, and no
\* preview call has been made after the call it records; so at most one entry
\* is successful.
ShortCircuit ==
    /\ \A i \in SuccessfulAttempts :
          i = Len(previewAttempts) /\ PreviewCallsMade = i
    /\ Cardinality(SuccessfulAttempts) <= 1

\* the first attempt succeeded and the invocation went on to its end
FirstAttemptSucceeded ==
    /\ pc = "done"
    /\ Len(previewAttempts) = 1
    /\ previewAttempts[1].success
    /\ Len(publishRes) = 1

\* C4: publishSuccessful implies previewSuccessful, in main and in every
\* result it returns.
PublishImpliesPreview ==
    /\ publishSuccessful => previewSuccessful
    /\ Completed =>
          (response[1].body.publishSuccessful => response[1].body.previewSuccessful)

\* a result that reports the publish as successful
PublishReportedSuccessful ==
    Completed /\ response[1].body.publishSuccessful

\* C5: with the coordinates, the token or both missing main returns the 400
\* error response naming exactly the missing fields, PROJECT_COORDS before
\* TOKEN, and makes no remote call; with both present it returns no 400.
MissingParamsGive400 ==
    pc = "done" =>
       IF CoordsMissing \/ TokenMissing
       THEN /\ response[1] =
                  [error |-> [statusCode |-> 400, body |-> [error |->
                      IF CoordsMissing /\ TokenMissing
                      THEN "missing parameter(s) 'PROJECT_COORDS, TOKEN'"
                      ELSE IF CoordsMissing
                      THEN "missing parameter(s) 'PROJECT_COORDS'"
                      ELSE "missing parameter(s) 'TOKEN'"]]]
            /\ fetchCalls = <<>>
       ELSE ~("error" \in DOMAIN response[1] /\ response[1].error.statusCode = 400)

\* C6: an invocation that passes validation returns statusCode 200 exactly
\* when a preview attempt succeeded and the publish call succeeded, and 500
\* otherwise; the two flags of the result say which.
StatusReflectsBothPhases ==
    pc = "done" /\ ~CoordsMissing /\ ~TokenMissing /\ params.ow_body.type # "null" =>
       LET r == response[1]
           previewOk == SuccessfulAttempts # {}
           publishOk == Len(publishRes) = 1 /\ ~publishRes[1].rejects /\ publishRes[1].ok
       IN /\ DOMAIN r = {"statusCode", "body"}
          /\ r.body.previewSuccessful = previewOk
          /\ r.body.publishSuccessful = publishOk
          /\ r.statusCode = IF previewOk /\ publishOk THEN 200 ELSE 500

\* the preview succeeded, the publish call failed, the status is 500
PublishFailedGives500 ==
    /\ Completed
    /\ response[1].body.previewSuccessful
    /\ ~response[1].body.publishSuccessful
    /\ response[1].statusCode = 500

\* C7: the path is generated at most once, and once when a remote call is
\* made; it is "/byom-page/" followed by the clock reading at that moment;
\* every call is made to that path and the result returns it, also when the
\* clock has advanced since.
PathGeneratedOnce ==
    /\ [](/\ pathGenerations <= 1
          /\ (fetchCalls # <<>> \/ Completed) => pathGenerations = 1
          /\ \A i \in DOMAIN fetchCalls :
                fetchCalls[i].url = "https://admin.hlx.page/" \o fetchCalls[i].uriEnv
                                       \o "/" \o projectCoords \o pagePath
          /\ Completed => response[1].body.pagePath = pagePath)
    /\ [][ pagePath' # pagePath =>
             pc = "start" /\ pagePath' = "/byom-page/" \o ToString(now) ]_vars

\* the publish call was made after the clock had advanced
PublishedAfterClockAdvanced ==
    /\ Completed
    /\ LiveCallIndexes # {}
    /\ pagePath = "/byom-page/1"
    /\ now = 2

\* C8: when the trigger supplies a filter value every call carries it in the
\* header x-content-source-location (one of the supplied values, the same in
\* all calls); when it supplies none no call has that header.
FilterHeaderPropagated ==
    \A i \in DOMAIN fetchCalls :
       LET h == fetchCalls[i].headers
       IN IF SuppliedFilters = {}
          THEN FilterHeader \notin DOMAIN h
          ELSE /\ FilterHeader \in DOMAIN h
               /\ h[FilterHeader] \in SuppliedFilters
               /\ h[FilterHeader] = fetchCalls[1].headers[FilterHeader]

\* a filter supplied by the body alone, carried by a preview and the publish call
FilterOnPreviewAndPublish ==
    /\ pc = "done"
    /\ SuppliedFilters = {"ES"}
    /\ PreviewCallIndexes # {} /\ LiveCallIndexes # {}
    /\ \A i \in DOMAIN fetchCalls : fetchCalls[i].headers[FilterHeader] = "ES"

\* C9: the preview call that settled last was classified successful exactly
\* when fetch did not throw, the response was a success response, and the
\* payload's preview.status was 200 or was no number (no JSON, no such field,
\* not a number).
PreviewClassification ==
    Len(previewRes) = 1 /\ previewAttempts # <<>> =>
       LET res == previewRes[1]
           numeric == ~res.jsonRejects /\ res.previewStatus.type = "number"
       IN previewAttempts[Len(previewAttempts)].success
             <=> /\ ~res.rejects
                 /\ res.ok
                 /\ (numeric => res.previewStatus.val = 200)

\* a success response whose payload says preview.status 500: a failure
PayloadStatusFails ==
    /\ Len(previewRes) = 1
    /\ previewRes[1].ok
    /\ previewRes[1].previewStatus = [type |-> "number", val |-> 500]
    /\ ~previewAttempts[Len(previewAttempts)].success

\* C10: whatever the remote calls do, main returns a value, and once a remote
\* call was made it is the result built at main's end; a preview call that
\* threw is recorded as a failure without status, a failed read of an error
\* body as a failure with the response's status, a payload that is no JSON as
\* a success; a publish call that threw leaves publishSuccessful false.
RemoteFailuresAbsorbed ==
    /\ pc = "done" => Len(response) = 1
    /\ pc = "done" /\ fetchCalls # <<>> => Completed
    /\ Len(previewRes) = 1 =>
          LET res  == previewRes[1]
              last == previewAttempts[Len(previewAttempts)]
          IN /\ previewAttempts # <<>>
             /\ res.rejects => ~last.success /\ last.status = UndefinedStatus
             /\ ~res.rejects /\ ~res.ok /\ res.textRejects =>
                   ~last.success /\ last.status = res.status
             /\ ~res.rejects /\ res.ok /\ res.jsonRejects => last.success
    /\ Len(publishRes) = 1 /\ publishRes[1].rejects =>
          Completed /\ ~response[1].body.publishSuccessful

\* a preview call threw, a later one succeeded, the publish call threw
CallsThrew ==
    /\ Completed
    /\ \E i \in DOMAIN previewAttempts : previewAttempts[i].status = UndefinedStatus
    /\ Len(publishRes) = 1 /\ publishRes[1].rejects

\* C11: at most one call to the live environment is made and it is the last
\* remote call; once it has settled the invocation has ended, and when it
\* failed the result says publishSuccessful = false.
PublishNotRetried ==
    /\ Cardinality(LiveCallIndexes) <= 1
    /\ \A i \in LiveCallIndexes : i = Len(fetchCalls)
    /\ Len(publishRes) = 1 => pc = "done"
    /\ Len(publishRes) = 1 /\ (publishRes[1].rejects \/ ~publishRes[1].ok) =>
          /\ Completed
          /\ ~response[1].body.publishSuccessful
          /\ ~publishSuccessful

\* previews 500, 500, 200, then a publish call that got a 500
PublishFailedAfterThreeAttempts ==
    /\ Completed
    /\ Len(previewAttempts) = 3
    /\ Len(publishRes) = 1 /\ ~publishRes[1].rejects /\ ~publishRes[1].ok
    /\ Len(fetchCalls) = 4

\* C12, as claimed: whatever the outcome, the value main returns contains
\* previewSuccessful, publishSuccessful, previewAttempts and pagePath (stated
\* here for the request bodies that are not JSON null, which end in main's
\* catch).
ResponseAlwaysCarriesResult ==
    pc = "done" /\ params.ow_body.type # "null" =>
       /\ "body" \in DOMAIN response[1]
       /\ DOMAIN response[1].body =
             {"previewSuccessful", "publishSuccessful", "previewAttempts", "pagePath"}

\* C12, amended: an invocation that made a remote call returns a value with
\* previewSuccessful (a preview attempt succeeded), publishSuccessful (the
\* publish call succeeded), previewAttempts (one entry for every preview call
\* made, as main recorded them) and pagePath; an invocation that made none
\* returns an error response without these fields.
ResultCarriesHistory ==
    pc = "done" =>
       IF fetchCalls # <<>>
       THEN /\ DOMAIN response[1] = {"statusCode", "body"}
            /\ DOMAIN response[1].body =
                  {"previewSuccessful", "publishSuccessful", "previewAttempts",
                   "pagePath"}
            /\ response[1].body.previewAttempts = previewAttempts
            /\ Len(response[1].body.previewAttempts) = PreviewCallsMade
            /\ response[1].body.pagePath = pagePath
            /\ response[1].body.previewSuccessful = (SuccessfulAttempts # {})
            /\ response[1].body.publishSuccessful =
                  (Len(publishRes) = 1 /\ ~publishRes[1].rejects /\ publishRes[1].ok)
       ELSE DOMAIN response[1] = {"error"}

\* the preview never succeeded: three failed attempts in the result
PreviewNeverSucceeded ==
    /\ Completed
    /\ ~response[1].body.previewSuccessful
    /\ Len(response[1].body.previewAttempts) = 3
    /\ LiveCallIndexes = {}

\* C13: the path of the invocation differs from the path of every other
\* invocation, also of one that runs at the same time or starts at the same
\* clock reading.
PathsUnique ==
    pagePath # Undefined => pagePath \notin otherPaths

---------------------------------------------------------------------------
(* What the properties of the data-provider action speak about *)

\* the request has a path
DpHasPath == dpParams.ow_path # NoPath

\* the path of the request with a leading "/" ensured
DpRequestPath ==
    IF Len(dpParams.ow_path) > 0 /\ dpParams.ow_path[1] = "/"
    THEN dpParams.ow_path
    ELSE <<"/">> \o dpParams.ow_path

\* it starts with /byom-page
DpRequestPathIsOverlay ==
    /\ Len(DpRequestPath) >= 10
    /\ \A i \in 1..10 : DpRequestPath[i] = OverlayPrefix[i]

\* main returned the error response with this status and message
DpReturnedError(statusCode, message) ==
    /\ dpPc = "done"
    /\ dpResponse[1] = [error |-> [statusCode |-> statusCode,
                                   body |-> [error |-> message]]]

\* main returned the HTML document
DpReturnedDocument ==
    /\ dpPc = "done"
    /\ DOMAIN dpResponse[1] = {"statusCode", "body", "headers"}
    /\ dpResponse[1].statusCode = 200
    /\ dpResponse[1].headers["Content-Type"] = "text/html"

\* C14: a request whose path, with a leading "/" ensured, does not start with
\* /byom-page gets the 404 error response naming that path, and no call of the
\* profile API is made; a path that starts with /byom-page passes the gate:
\* the profile API is called and no 404 is returned.
OverlayGate ==
    dpPc # "start" /\ DpHasPath =>
       IF ~DpRequestPathIsOverlay
       THEN /\ DpReturnedError(404, text(DpRequestPath) \o " is not an overlay path")
            /\ dpParams.ow_path = <<"i", "n", "v">> =>
                  dpResponse[1].error.body.error = "/inv is not an overlay path"
            /\ dpFetchCalls = <<>>
       ELSE /\ Len(dpFetchCalls) = 1
            /\ dpPc = "done" =>
                  ~("error" \in DOMAIN dpResponse[1]
                       /\ dpResponse[1].error.statusCode = 404)

\* a path that contains /byom-page but does not start with it is rejected
NamespaceInsidePathRejected ==
    /\ dpParams.ow_path = <<"/", "x">> \o OverlayPrefix
    /\ DpReturnedError(404, "/x/byom-page is not an overlay path")
    /\ dpFetchCalls = <<>>

\* the profile fetch of the request ended, and ended as res
DpFetchEnded == dpPc = "done" /\ Len(dpRes) = 1

\* the template could not be loaded
DpTemplateLoadFailed ==
    \E i \in DOMAIN dpLog :
       dpLog[i] = [level |-> "error",
                   message |-> "Error: ENOENT: no such file or directory"]

\* the profile fetch failed: no response at all, a non-success response, or a
\* success response without a result
DpUpstreamFailed ==
    /\ DpFetchEnded
    /\ \/ dpRes[1].rejects
       \/ ~dpRes[1].ok
       \/ dpRes[1].ok /\ ~dpRes[1].jsonRejects
             /\ dpRes[1].data \in {"noResults", "emptyResults"}

\* the document of the response shows the fixed fallback record
DpFallbackDocument ==
    /\ DpReturnedDocument
    /\ dpResponse[1].body.fullName = "John Doe"
    /\ dpResponse[1].body.username = "johndoe"

\* C15: on an overlay path, every failure of the profile fetch (a non-success
\* response, a success response with an empty result set, or no response at
\* all) yields the status 200 document built from the fallback record John
\* Doe / johndoe, never an error response.
UpstreamFailureGivesFallback ==
    DpUpstreamFailed /\ ~DpTemplateLoadFailed => DpFallbackDocument

\* the error-level entries of the log
DpLoggedErrors == {dpLog[i].message : i \in {j \in DOMAIN dpLog : dpLog[j].level = "error"}}

\* the exception that the request and the outcome of its fetch raise in main,
\* as far as they determine one
DpRaised ==
    IF ~DpHasPath
    THEN {"TypeError: Cannot read properties of undefined (reading 'startsWith')"}
    ELSE IF ~DpFetchEnded THEN {}
    ELSE IF dpRes[1].rejects THEN {"FetchError: connect ECONNREFUSED"}
    ELSE IF dpRes[1].ok /\ dpRes[1].jsonRejects THEN {"SyntaxError: Unexpected token"}
    ELSE IF dpRes[1].ok /\ dpRes[1].data = "null"
    THEN {"TypeError: Cannot read properties of null (reading 'results')"}
    ELSE IF dpRes[1].ok /\ dpRes[1].data = "badUser"
    THEN {"TypeError: Cannot read properties of undefined (reading 'title')"}
    ELSE {}

\* C16: whatever exception is raised in main (a request without a path, a
\* fetch that rejects, a body that cannot be parsed or lacks the fields read,
\* a template that cannot be loaded), main returns: it has logged the error
\* raised, and its value is the error response 500 "server error", the same
\* for every exception; it logs an error in no other case.
ExceptionsGiveServerError ==
    dpPc = "done" =>
       /\ Len(dpResponse) = 1
       /\ DpRaised \subseteq DpLoggedErrors
       /\ Cardinality(DpLoggedErrors) <= 1
       /\ DpLoggedErrors # {} <=> DpReturnedError(500, "server error")
       /\ DpRaised = {} /\ DpLoggedErrors # {} => DpTemplateLoadFailed

\* the template could not be loaded after the API had returned a user
TemplateLoadFailureGives500 ==
    /\ DpFetchEnded
    /\ dpRes[1].ok /\ dpRes[1].data = "user"
    /\ DpTemplateLoadFailed
    /\ DpReturnedError(500, "server error")

\* the request body decodes to a JSON object
BodyIsObject == params.ow_body.type = "object"

\* PROJECT_COORDS and TOKEN appear in the body only: not as direct
\* parameters, not in the environment
CoordsAndTokenInBodyOnly ==
    /\ BodyIsObject
    /\ Truthy(params.ow_body.PROJECT_COORDS) /\ Truthy(params.ow_body.TOKEN)
    /\ ~Truthy(params.PROJECT_COORDS) /\ ~Truthy(params.TOKEN)
    /\ ~Truthy(env.PROJECT_COORDS) /\ ~Truthy(env.TOKEN)

\* every call made addresses these coordinates with this token
CallsUse(coords, tok) ==
    \A i \in DOMAIN fetchCalls :
       /\ fetchCalls[i].url = "https://admin.hlx.page/" \o fetchCalls[i].uriEnv
                                 \o "/" \o coords \o fetchCalls[i].path
       /\ fetchCalls[i].headers["authorization"] = "token " \o tok

\* C17: a trigger whose PROJECT_COORDS and TOKEN appear only in the request
\* body passes validation and its calls use the body's values; a field given
\* both as a direct parameter and in the body is used with the direct
\* parameter's value.
BodySuppliesCoordsAndToken ==
    pc = "done" =>
       /\ CoordsAndTokenInBodyOnly =>
             /\ Completed
             /\ fetchCalls # <<>>
             /\ CallsUse(params.ow_body.PROJECT_COORDS, params.ow_body.TOKEN)
       /\ BodyIsObject /\ Truthy(params.PROJECT_COORDS) /\ Truthy(params.TOKEN) =>
             /\ Completed
             /\ CallsUse(params.PROJECT_COORDS, params.TOKEN)

\* a value that is present and not the empty string
NonEmpty(v) == v # Undefined /\ v # ""

\* the first non-empty value in the order body NATIONALITY, body nationality,
\* parameter NATIONALITY, parameter nationality; Undefined when there is none
FirstFilterInOrder ==
    IF BodyIsObject /\ NonEmpty(params.ow_body.NATIONALITY)
    THEN params.ow_body.NATIONALITY
    ELSE IF BodyIsObject /\ NonEmpty(params.ow_body.nationality)
    THEN params.ow_body.nationality
    ELSE IF NonEmpty(params.NATIONALITY) THEN params.NATIONALITY
    ELSE IF NonEmpty(params.nationality) THEN params.nationality
    ELSE Undefined

\* C18: the filter of every call is the first non-empty value in the order
\* body field NATIONALITY, body field nationality, direct parameter
\* NATIONALITY, direct parameter nationality (a body value wins over a direct
\* parameter); with none of the four present no call carries a filter.
FilterPrecedence ==
    \A i \in DOMAIN fetchCalls :
       IF FirstFilterInOrder = Undefined
       THEN FilterHeader \notin DOMAIN fetchCalls[i].headers
       ELSE /\ FilterHeader \in DOMAIN fetchCalls[i].headers
            /\ fetchCalls[i].headers[FilterHeader] = FirstFilterInOrder

\* the lower-case body field wins over both direct parameters
BodyLowerCaseBeatsParameters ==
    /\ BodyIsObject
    /\ params.ow_body.NATIONALITY = Undefined
    /\ params.ow_body.nationality = "de"
    /\ params.NATIONALITY = "GB,FR,DE"
    /\ params.nationality = "us"
    /\ LiveCallIndexes # {}
    /\ \A i \in DOMAIN fetchCalls : fetchCalls[i].headers[FilterHeader] = "de"

\* the coordinates and the token that passed validation
ValidatedCoords ==
    IF Truthy(params.PROJECT_COORDS) THEN params.PROJECT_COORDS ELSE env.PROJECT_COORDS

ValidatedToken == IF Truthy(params.TOKEN) THEN params.TOKEN ELSE env.TOKEN

PreviewUrl == "https://admin.hlx.page/preview/" \o ValidatedCoords \o pagePath

LiveUrl == "https://admin.hlx.page/live/" \o ValidatedCoords \o pagePath

\* C19: every preview call is a POST to
\* https://admin.hlx.page/preview/<coords><path>, the publish call, which
\* comes last, is a POST to https://admin.hlx.page/live/<coords><path> with
\* the same coordinates and path, and every call has the header
\* authorization: token <TOKEN> with the validated token; no call is a DELETE.
CallsArePosts ==
    \A i \in DOMAIN fetchCalls :
       /\ fetchCalls[i].method = "POST"
       /\ fetchCalls[i].headers["authorization"] = "token " \o ValidatedToken
       /\ fetchCalls[i].url =
             IF i \in LiveCallIndexes THEN LiveUrl ELSE PreviewUrl
       /\ i \in LiveCallIndexes =>
             /\ i = Len(fetchCalls)
             /\ i > 1
             /\ pc \in {"publish", "done"}
       /\ pc = "preview" => fetchCalls[i].url = PreviewUrl

\* a retried preview and the publish, with coordinates from the environment
\* and the token from the parameters
PostsToPreviewAndLive ==
    /\ pc = "done"
    /\ Len(fetchCalls) = 3
    /\ fetchCalls[1].url = "https://admin.hlx.page/preview/env/repo/main/byom-page/1"
    /\ fetchCalls[2].url = "https://admin.hlx.page/preview/env/repo/main/byom-page/1"
    /\ fetchCalls[3].url = "https://admin.hlx.page/live/env/repo/main/byom-page/1"
    /\ \A i \in 1..3 :
          /\ fetchCalls[i].method = "POST"
          /\ fetchCalls[i].headers["authorization"] = "token aem-token"

\* the request passed the path gate
DpAccepted == dpPc \in {"fetching", "done"} /\ DpHasPath /\ DpRequestPathIsOverlay

\* the request has the filter header
DpFilterHeaderPresent == FilterHeader \in DOMAIN dpParams.ow_headers

\* the warning about a missing filter was logged
DpAbsenceWarned ==
    \E i \in DOMAIN dpLog :
       /\ dpLog[i].level = "warn"
       /\ dpLog[i].message \in
             { "Invalid nationality format: undefined. Using default.",
               "Invalid nationality format: . Using default." }

Forwarded == dpPc \in {"start", "fetching", "done"} /\ fetchCalls # <<>>

\* C21: the header the webhook writes on its calls is the header the
\* data-provider reads: when the admin service forwards the headers of a
\* preview call unchanged, a trigger with filter F makes the data-provider
\* call https://randomuser.me/api/?nat=F, and a trigger without a filter
\* makes it call https://randomuser.me/api/.
FilterReachesProfileCall ==
    Forwarded =>
       /\ \A n \in DOMAIN fetchCalls[1].headers :
             n \in DOMAIN dpParams.ow_headers
                /\ dpParams.ow_headers[n] = fetchCalls[1].headers[n]
       /\ dpPc \in {"fetching", "done"} =>
             dpFetchCalls =
                IF FirstFilterInOrder = Undefined
                THEN <<"https://randomuser.me/api/">>
                ELSE <<"https://randomuser.me/api/?nat=" \o FirstFilterInOrder>>

\* the filter of the body reached the profile call, and the page was rendered
BodyFilterReachedProfileCall ==
    /\ Forwarded
    /\ BodyIsObject /\ params.ow_body.NATIONALITY = "ES"
    /\ params.NATIONALITY = "GB,FR,DE"
    /\ dpFetchCalls = <<"https://randomuser.me/api/?nat=ES">>
    /\ DpReturnedDocument

\* the header name the tests of the two actions use
UserLocationHeader == "x-user-location"

CodeLists == {"GB", "US,GB,FR"}

MalformedFilterIgnored ==
    /\ DpAccepted
    /\ DpFilterHeaderPresent
    /\ dpParams.ow_headers[FilterHeader] \notin CodeLists \cup {""}
    => /\ dpFetchCalls = <<"https://randomuser.me/api/">>
       /\ \E i \in DOMAIN dpLog :
             /\ dpLog[i].level = "warn"
             /\ dpLog[i].message = "Invalid nationality format: "
                   \o dpParams.ow_headers[FilterHeader] \o ". Using default."
       /\ dpPc = "done" /\ DpLoggedErrors = {} => DpReturnedDocument

\* the remote calls of the invocation that have not settled
Outstanding == Len(fetchCalls) - Len(previewAttempts) - Len(publishRes)

\* C25: the remote calls of an invocation are strictly sequential: at most
\* one call is outstanding, and one is exactly while main awaits a fetch; the
\* k-th preview call is issued only when the k-1 attempts before it have
\* settled; the publish call is issued after every preview call has settled
\* and is the last call; every step issues at most one call.
CallsSequential ==
    /\ [](/\ Outstanding \in {0, 1}
          /\ Outstanding = 1 <=> pc \in {"preview", "publish"}
          /\ \A i \in PreviewCallIndexes : i <= Len(previewAttempts) + 1
          /\ \A i \in LiveCallIndexes :
                /\ i = Len(fetchCalls)
                /\ 1..(i - 1) = PreviewCallIndexes
                /\ Len(previewAttempts) = i - 1)
    /\ [][fetchCalls' # fetchCalls =>
             /\ Len(fetchCalls') = Len(fetchCalls) + 1
             /\ SubSeq(fetchCalls', 1, Len(fetchCalls)) = fetchCalls
             /\ Outstanding' = 1
             /\ Outstanding = 1 => Len(previewAttempts') = Len(previewAttempts) + 1]_vars

\* three preview calls and the publish call, one after the other, all settled
FourCallsInSequence ==
    /\ pc = "done"
    /\ Len(fetchCalls) = 4
    /\ PreviewCallIndexes = {1, 2, 3} /\ LiveCallIndexes = {4}
    /\ Len(previewAttempts) = 3 /\ Len(publishRes) = 1
    /\ Outstanding = 0

\* the entry of the k-th preview call, whose fetch ended as res
AttemptEntry(k, res) ==
    [ attempt |-> k,
      success |-> /\ ~res.rejects
                  /\ res.ok
                  /\ (~res.jsonRejects /\ res.previewStatus.type = "number"
                         => res.previewStatus.val = 200),
      status  |-> IF res.rejects THEN UndefinedStatus ELSE res.status ]

\* a preview call settles in this step
PreviewCallSettles == pc = "preview" /\ (pc' # pc \/ fetchCalls' # fetchCalls)

\* C26: every preview call that settles, successful or not, appends one entry
\* to previewAttempts and nothing else changes the list: the k-th entry has
\* ordinal k, the success flag of the call's classification and the status
\* code of the transport response (also when the payload's status decided),
\* the status being absent when the fetch threw.
AttemptsRecordEveryCall ==
    /\ [](/\ \A k \in DOMAIN previewAttempts : previewAttempts[k].attempt = k
          /\ Len(previewAttempts) =
                PreviewCallsMade - (IF pc = "preview" THEN 1 ELSE 0))
    /\ [][/\ PreviewCallSettles =>
                previewAttempts' =
                   Append(previewAttempts,
                          AttemptEntry(Len(previewAttempts) + 1, previewRes'[1]))
          /\ previewAttempts' # previewAttempts => PreviewCallSettles]_vars

\* a failure decided by the payload, a fetch that threw, then a success
ThreeKindsOfEntries ==
    /\ Len(previewAttempts) = 3
    /\ previewAttempts[1] = [attempt |-> 1, success |-> FALSE, status |-> 200]
    /\ previewAttempts[2] = [attempt |-> 2, success |-> FALSE,
                             status |-> UndefinedStatus]
    /\ previewAttempts[3] = [attempt |-> 3, success |-> TRUE, status |-> 200]

\* main's catch was entered: the property read of a null body threw
ExceptionRaised == pc = "done" /\ params.ow_body.type = "null"

\* C27: when an exception is raised inside main, the error response returned
\* carries a generic message, the same for every exception: its message is
\* not the message of the exception raised.
ExceptionMessageNotReturned ==
    ExceptionRaised =>
       /\ DOMAIN response[1] = {"error"}
       /\ response[1].error.statusCode = 500
       /\ response[1].error.body.error # NullTypeError

\* C28: the publish call is classified by its transport outcome alone: a
\* success response from live gives publishSuccessful = true whatever its
\* payload is (no JSON, a preview.status that is not 200), a non-success
\* response or a fetch that threw gives false; the result returned says the
\* same.
PublishClassifiedByTransport ==
    Len(publishRes) = 1 =>
       /\ publishSuccessful <=> (~publishRes[1].rejects /\ publishRes[1].ok)
       /\ Completed
       /\ response[1].body.publishSuccessful = publishSuccessful
       /\ response[1].statusCode = IF publishSuccessful THEN 200 ELSE 500

\* the payload of the publish response says preview.status 500: a success
PublishPayloadStatusIgnored ==
    /\ Len(publishRes) = 1
    /\ publishRes[1].ok
    /\ publishRes[1].previewStatus = [type |-> "number", val |-> 500]
    /\ publishSuccessful
    /\ response[1].statusCode = 200

\* the data-provider returned the 404 of its path gate
DpReturnedNotOverlay ==
    /\ dpPc = "done"
    /\ "error" \in DOMAIN dpResponse[1]
    /\ dpResponse[1].error.statusCode = 404

\* C29: a path generated by the webhook, at any clock reading, passes the
\* path gate of the data-provider: the data-provider invoked with it receives
\* the very path of the call, calls the profile API, and never returns the 404
\* "is not an overlay path".
GeneratedPathAccepted ==
    Forwarded =>
       /\ dpParams.ow_path # NoPath
       /\ text(dpParams.ow_path) = pagePath
       /\ \E t \in 1..now : pagePath = "/byom-page/" \o ToString(t)
       /\ dpPc \in {"fetching", "done"} =>
             /\ Len(dpFetchCalls) = 1
             /\ text(dpPath) = pagePath
       /\ ~DpReturnedNotOverlay

\* the path generated at the second clock reading was rendered
SecondReadingRendered ==
    /\ pagePath = "/byom-page/2"
    /\ dpPath = OverlayPrefix \o <<"/", "2">>
    /\ DpReturnedDocument

\* C30: provided every remote call settles, every invocation returns, and
\* returns one response; it makes at most 4 remote calls, at most 3 of them
\* preview calls and at most 1 the publish call; after it has returned nothing
\* of the invocation changes, so no call is made.
InvocationTerminates ==
    /\ <>(pc = "done")
    /\ [](/\ Len(response) = (IF pc = "done" THEN 1 ELSE 0)
          /\ Len(fetchCalls) <= 4
          /\ PreviewCallsMade <= 3
          /\ Cardinality(LiveCallIndexes) <= 1)
    /\ [][pc = "done" => UNCHANGED webhookVars]_vars

\* the invocation returned after four remote calls
ReturnedAfterFourCalls ==
    /\ pc = "done"
    /\ Len(response) = 1
    /\ Len(fetchCalls) = 4
    /\ PreviewCallsMade = 3 /\ Cardinality(LiveCallIndexes) = 1

=============================================================================
